---- MODULE Spec2Model ----
(***************************************************************************)
(* A model of three parts of snarkVM:                                      *)
(*                                                                         *)
(*  - the thread-local circuit environment `Circuit`                       *)
(*    (circuits/src/models/circuit.rs): the slot CB, the lazily built root *)
(*    scope, scope / scoped / reset_circuit / new_variable / enforce /     *)
(*    halt;                                                                *)
(*  - the confirmed transaction `ConfirmedTransaction`                     *)
(*    (ledger/block/src/transactions/confirmed/mod.rs): its four           *)
(*    validating constructors, its queries and the unconfirmed             *)
(*    reconstruction;                                                      *)
(*  - the derived lifts of `Inject`                                        *)
(*    (circuit/environment/src/traits/inject.rs).                          *)
(*                                                                         *)
(* An Option<T> is modelled as a set with at most one element: None is {}  *)
(* and Some(x) is {x}.                                                     *)
(***************************************************************************)
EXTENDS Integers, Sequences, FiniteSets, TLC

VARIABLES
    \* ---- circuit environment (one thread) ----
    slot,      \* CB: {} while the OnceCell is empty, {scope} once initialised
    systems,   \* the constraint systems created so far; a scope's `sys` indexes it
    stack,     \* the scoped() calls in progress, innermost last
    steps,     \* how many environment operations have run
    last,      \* the outcome of the last environment operation
    \* ---- confirmed transactions, injections, drawn programs ----
    call,      \* the call under study with its arguments: a constructor call,
               \* an Inject::new call, or the program of a run
    result,    \* the Result<ConfirmedTransaction> of a constructor call
    answer     \* what was asked last of the value built (unconfirmed_id,
               \* unconfirmed_transaction, the queries) or what Inject::new returned

envVars == <<slot, systems, stack, steps, last>>
txVars == <<call, result, answer>>
vars == <<slot, systems, stack, steps, last, call, result, answer>>

(***************************************************************************)
(* Bounds of the model.                                                    *)
(***************************************************************************)
MaxSteps == 5       \* environment operations in one run

Names == {"a", "b"}
Modes == {"Constant", "Public", "Private"}

Some(x) == {x}
None == {}
Unwrap(o) == CHOOSE x \in o : TRUE

(***************************************************************************)
(* ConstraintSystem and CircuitScope (crate::models).                      *)
(***************************************************************************)
\* ConstraintSystem::new(): the implicit public `one` is allocated.
ConstraintSystem_new == [constants |-> 0, public |-> 1, private |-> 0, constraints |-> 0]

new_constant(cs) == [cs EXCEPT !.constants = @ + 1]
new_public(cs) == [cs EXCEPT !.public = @ + 1]
new_private(cs) == [cs EXCEPT !.private = @ + 1]
enforce(cs) == [cs EXCEPT !.constraints = @ + 1]

\* The path of a scope is the sequence of its '/'-separated segments.
RootName == <<"ConstraintSystem::new">>

\* CircuitScope::new(system, name, parent)
CircuitScope_new(system, name) == [path |-> name, sys |-> system]

\* CircuitScope::scope(sub_name): path ++ "/" ++ sub_name over the same system.
CircuitScope_scope(scope, name) == [path |-> Append(scope.path, name), sys |-> scope.sys]

(***************************************************************************)
(* Circuit::cs(): get_or_init the slot, then clone the scope in it.        *)
(***************************************************************************)
SlotAfterCs ==
    IF slot = None THEN Some(CircuitScope_new(Len(systems) + 1, RootName)) ELSE slot

SystemsAfterCs ==
    IF slot = None THEN Append(systems, ConstraintSystem_new) ELSE systems

cs == Unwrap(SlotAfterCs)

\* Circuit::num_constants / num_public / num_private / num_constraints
num_constants == SystemsAfterCs[cs.sys].constants
num_public == SystemsAfterCs[cs.sys].public
num_private == SystemsAfterCs[cs.sys].private
num_constraints == SystemsAfterCs[cs.sys].constraints

\* Mutant of Allocate: every mode is allocated as a private variable.
Allocate_AlwaysPrivate(mode, system) == new_private(system)

\* The match of Circuit::new_variable on the mode.
Allocate(mode, system) ==
    CASE mode = "Constant" -> new_constant(system)
      [] mode = "Public" -> new_public(system)
      [] mode = "Private" -> new_private(system)

(***************************************************************************)
(* History, kept beside the program state so that properties can speak of  *)
(* it.  Every frame of `stack` holds, next to what scoped() itself keeps   *)
(* (`current`, `name`): the ambient scope observed just before the call    *)
(* (`before`), the counters of its system at that moment (`entry`), what   *)
(* was issued during the call and under which scope (`issued`), whether    *)
(* the logic of that call replaced the slot itself (`replaced`) and        *)
(* whether reset_circuit ran anywhere inside the call (`reset`).           *)
(* `last` is the outcome of the last operation.                            *)
(***************************************************************************)
Record(frames, kind, scope) ==
    [i \in DOMAIN frames |->
        [frames[i] EXCEPT !.issued = Append(@, [kind |-> kind, scope |-> scope])]]

MarkTop(frames) ==
    [i \in DOMAIN frames |->
        IF i = Len(frames) THEN [frames[i] EXCEPT !.replaced = TRUE] ELSE frames[i]]

MarkReset(frames) ==
    [i \in DOMAIN frames |-> [frames[i] EXCEPT !.reset = TRUE]]

\* op: the operation; arg: its name or mode; scope: the scope it returned
\* (scope, scoped) or issued under (new_variable, enforce); frame: the frame
\* of the scoped() call that returned, or of the outermost one a panic unwound.
Outcome(op, arg, scope, frame) ==
    [op |-> op, arg |-> arg, panic |-> FALSE, scope |-> scope, frame |-> frame]

Panicked(op, frame) ==
    [op |-> op, arg |-> "", panic |-> TRUE, scope |-> None, frame |-> frame]

(***************************************************************************)
(* The operations of Environment for Circuit.  A run is a sequence of at   *)
(* most MaxSteps of them, in any order the nesting of scoped() allows.     *)
(***************************************************************************)
\* A run drawn beforehand (call.op = "run") lasts as long as its program.
Budget == IF call.op = "run" THEN Len(call.ops) ELSE MaxSteps

Tick == steps < Budget /\ steps' = steps + 1

\* Circuit::new_variable(mode, value)
new_variable(mode) ==
    /\ Tick
    /\ slot' = SlotAfterCs
    /\ systems' = [SystemsAfterCs EXCEPT ![cs.sys] = Allocate(mode, @)]
    /\ stack' = Record(stack, mode, cs)
    /\ last' = Outcome("new_variable", mode, Some(cs), None)
    /\ UNCHANGED txVars

\* Circuit::enforce(constraint)
Enforce ==
    /\ Tick
    /\ slot' = SlotAfterCs
    /\ systems' = [SystemsAfterCs EXCEPT ![cs.sys] = enforce(@)]
    /\ stack' = Record(stack, "Constraint", cs)
    /\ last' = Outcome("enforce", "", Some(cs), None)
    /\ UNCHANGED txVars

\* Circuit::num_constants / num_public / num_private / num_constraints /
\* is_satisfied: Self::cs(), then a read of the constraint system.
Read ==
    /\ Tick
    /\ slot' = SlotAfterCs
    /\ systems' = SystemsAfterCs
    /\ last' = Outcome("read", "", Some(cs), None)
    /\ UNCHANGED <<stack, txVars>>

\* Mutant of Scope: the child is returned but never stored in the slot.
Scope_NotInstalled(name) ==
    /\ Tick
    /\ slot' = SlotAfterCs
    /\ last' = Outcome("scope", name, Some(CircuitScope_scope(cs, name)), None)
    /\ systems' = SystemsAfterCs
    /\ stack' = MarkTop(stack)
    /\ UNCHANGED txVars

\* Circuit::scope(name)
Scope(name) ==
    /\ Tick
    /\ LET scope == CircuitScope_scope(cs, name)
       IN  /\ slot' = Some(scope)
           /\ last' = Outcome("scope", name, Some(scope), None)
    /\ systems' = SystemsAfterCs
    /\ stack' = MarkTop(stack)
    /\ UNCHANGED txVars

\* Circuit::scoped(name, logic), up to the call of logic(scope).
ScopedEnter(name) ==
    /\ Tick
    /\ LET current == cs
           scope == CircuitScope_scope(current, name)
       IN  /\ slot' = Some(scope)
           /\ stack' = Append(stack,
                  [current |-> current, name |-> name,
                   before |-> cs, entry |-> SystemsAfterCs[cs.sys], issued |-> <<>>,
                   replaced |-> FALSE, reset |-> FALSE])
           /\ last' = Outcome("scoped", name, Some(scope), None)
    /\ systems' = SystemsAfterCs
    /\ UNCHANGED txVars

\* Mutant of ScopedExit: the saved scope is not written back.
ScopedExit_NoRestore ==
    /\ stack # <<>>
    /\ Tick
    /\ stack' = SubSeq(stack, 1, Len(stack) - 1)
    /\ last' = Outcome("scoped_return", "", None, Some(stack[Len(stack)]))
    /\ UNCHANGED <<slot, systems, txVars>>

\* Mutant of ScopedExit: a slot that logic reset is left as logic put it.
ScopedExit_KeepsReset ==
    /\ stack # <<>>
    /\ Tick
    /\ slot' = IF stack[Len(stack)].reset THEN slot ELSE Some(stack[Len(stack)].current)
    /\ stack' = SubSeq(stack, 1, Len(stack) - 1)
    /\ last' = Outcome("scoped_return", "", None, Some(stack[Len(stack)]))
    /\ UNCHANGED <<systems, txVars>>

\* Circuit::scoped(name, logic), after logic(scope) has returned.
ScopedExit ==
    /\ stack # <<>>
    /\ Tick
    /\ slot' = Some(stack[Len(stack)].current)
    /\ stack' = SubSeq(stack, 1, Len(stack) - 1)
    /\ last' = Outcome("scoped_return", "", None, Some(stack[Len(stack)]))
    /\ UNCHANGED <<systems, txVars>>

\* Mutant of reset_circuit: a new root scope over the old constraint system.
reset_circuit_SameSystem ==
    /\ Tick
    /\ IF slot = None
       THEN /\ last' = Panicked("reset_circuit", None)
            /\ UNCHANGED <<slot, systems, stack>>
       ELSE /\ slot' = Some(CircuitScope_new(Unwrap(slot).sys, RootName))
            /\ stack' = MarkReset(MarkTop(stack))
            /\ last' = Outcome("reset_circuit", "", None, None)
            /\ UNCHANGED systems
    /\ UNCHANGED txVars

\* Mutant of reset_circuit: the empty cell is initialised, as by cs().
reset_circuit_Lazy ==
    /\ Tick
    /\ systems' = Append(systems, ConstraintSystem_new)
    /\ slot' = Some(CircuitScope_new(Len(systems) + 1, RootName))
    /\ stack' = MarkReset(MarkTop(stack))
    /\ last' = Outcome("reset_circuit", "", None, None)
    /\ UNCHANGED txVars

\* Circuit::reset_circuit(): cb.get().unwrap() panics on the empty cell.
reset_circuit ==
    /\ Tick
    /\ IF slot = None
       THEN /\ last' = Panicked("reset_circuit", None)
            /\ UNCHANGED <<slot, systems, stack>>
       ELSE /\ systems' = Append(systems, ConstraintSystem_new)
            /\ slot' = Some(CircuitScope_new(Len(systems) + 1, RootName))
            /\ stack' = MarkReset(MarkTop(stack))
            /\ last' = Outcome("reset_circuit", "", None, None)
    /\ UNCHANGED txVars

\* Circuit::halt(message): the panic unwinds every scoped() call in progress
\* up to the thread's top level; no frame of scoped() runs code on the way.
halt ==
    /\ Tick
    /\ stack' = <<>>
    /\ last' = Panicked("halt", IF stack = <<>> THEN None ELSE Some(stack[1]))
    /\ UNCHANGED <<slot, systems, txVars>>

(***************************************************************************)
(* Transaction, Rejected and FinalizeOperation, as far as                  *)
(* ConfirmedTransaction looks into them (crate::Transaction,               *)
(* crate::rejected::Rejected, synthesizer_program::FinalizeOperation).     *)
(***************************************************************************)
MaxFinalize == 3    \* finalize operations passed to a constructor
MaxMappings == 1    \* mappings a deployed program declares
MaxIndex == 1       \* the largest confirmed-transaction index used

\* Only the variant tag of a finalize operation is inspected.
FinalizeOperation ==
    {"InitializeMapping", "InsertKeyValue", "UpdateKeyValue",
     "RemoveKeyValue", "ReplaceMapping", "RemoveMapping"}

RECURSIVE SeqsUpTo(_, _)
SeqsUpTo(S, n) ==
    IF n = 0 THEN {<<>>}
    ELSE LET shorter == SeqsUpTo(S, n - 1)
         IN  shorter \cup {Append(q, x) : q \in {r \in shorter : Len(r) = n - 1}, x \in S}

FinalizeLists == SeqsUpTo(FinalizeOperation, MaxFinalize)
Indices == 0..MaxIndex

Owners == {"owner1", "owner2"}
Deployments == [mappings : 0..MaxMappings]   \* deployment.program().mappings().len()
Executions == {"execution1", "execution2"}
Fees == [public : BOOLEAN]                    \* fee.is_fee_public()

Option(S) == {None} \cup {Some(x) : x \in S}

\* A transaction is a deploy (owner, deployment), an execute (execution) or a
\* fee transaction; fee_transition() is optional.
Transactions ==
    [kind : {"Deploy"}, owner : {Some(o) : o \in Owners},
     deployment : {Some(d) : d \in Deployments}, execution : {None}, fee : Option(Fees)]
    \cup
    [kind : {"Execute"}, owner : {None}, deployment : {None},
     execution : {Some(e) : e \in Executions}, fee : Option(Fees)]
    \cup
    [kind : {"Fee"}, owner : {None}, deployment : {None}, execution : {None},
     fee : Option(Fees)]

\* Rejected::Deployment(program_owner, deployment) | Rejected::Execution(execution)
Rejected_new_deployment(owner, deployment) ==
    [kind |-> "Deployment", owner |-> Some(owner), deployment |-> Some(deployment),
     execution |-> None]

Rejected_new_execution(execution) ==
    [kind |-> "Execution", owner |-> None, deployment |-> None,
     execution |-> Some(execution)]

Rejecteds ==
    {Rejected_new_deployment(o, d) : o \in Owners, d \in Deployments}
    \cup {Rejected_new_execution(e) : e \in Executions}

is_deployment(rejected) == rejected.kind = "Deployment"
is_execution(rejected) == rejected.kind = "Execution"
program_owner(rejected) == rejected.owner
Rejected_deployment(rejected) == rejected.deployment
Rejected_execution(rejected) == rejected.execution

is_execute(transaction) == transaction.kind = "Execute"
is_fee(transaction) == transaction.kind = "Fee"
fee_transition(transaction) == transaction.fee
is_fee_public(fee) == fee.public

\* A transaction id is derived from what the transaction consists of: the
\* deployment or execution, and the fee transition if there is one.
TransactionID(kind, deployment, execution, fee) ==
    [kind |-> kind, deployment |-> deployment, execution |-> execution, fee |-> fee]

\* Transaction::id()
id(transaction) ==
    TransactionID(transaction.kind, transaction.deployment, transaction.execution,
                  transaction.fee)

Ok(value) == [ok |-> TRUE, err |-> "", value |-> Some(value)]
Err(kind) == [ok |-> FALSE, err |-> kind, value |-> None]

\* Rejected::to_unconfirmed_id(&Option<Fee>): the id the rejected deployment
\* or execution had together with that fee.
to_unconfirmed_id(rejected, fee) ==
    IF is_deployment(rejected)
    THEN Ok(TransactionID("Deploy", rejected.deployment, None, fee))
    ELSE Ok(TransactionID("Execute", None, rejected.execution, fee))

\* Transaction::from_deployment(owner, deployment, fee)
from_deployment(owner, deployment, fee) ==
    Ok([kind |-> "Deploy", owner |-> Some(owner), deployment |-> Some(deployment),
        execution |-> None, fee |-> Some(fee)])

\* Transaction::from_execution(execution, Option<Fee>)
from_execution(execution, fee) ==
    Ok([kind |-> "Execute", owner |-> None, deployment |-> None,
        execution |-> Some(execution), fee |-> fee])

\* Transaction::from_fee(fee)
from_fee(fee) ==
    Ok([kind |-> "Fee", owner |-> None, deployment |-> None, execution |-> None,
        fee |-> Some(fee)])

(***************************************************************************)
(* ConfirmedTransaction.  A value is its variant with (index, transaction, *)
(* finalize operations | rejected).  The error kinds name the messages of  *)
(* the bail!/ensure!/anyhow! calls.                                        *)
(***************************************************************************)
AcceptedDeploy(index, transaction, finalize) ==
    [variant |-> "AcceptedDeploy", index |-> index, transaction |-> transaction,
     finalize |-> finalize, rejected |-> None]

AcceptedExecute(index, transaction, finalize) ==
    [variant |-> "AcceptedExecute", index |-> index, transaction |-> transaction,
     finalize |-> finalize, rejected |-> None]

RejectedDeploy(index, transaction, rejected) ==
    [variant |-> "RejectedDeploy", index |-> index, transaction |-> transaction,
     finalize |-> <<>>, rejected |-> Some(rejected)]

RejectedExecute(index, transaction, rejected) ==
    [variant |-> "RejectedExecute", index |-> index, transaction |-> transaction,
     finalize |-> <<>>, rejected |-> Some(rejected)]

\* The try_fold of accepted_deploy: (init, update) counts, or the bail! at the
\* first operation that is neither.
RECURSIVE CountDeployOps(_, _, _)
CountDeployOps(operations, init, update) ==
    IF operations = <<>> THEN [valid |-> TRUE, init |-> init, update |-> update]
    ELSE CASE Head(operations) = "InitializeMapping" ->
                  CountDeployOps(Tail(operations), init + 1, update)
           [] Head(operations) = "UpdateKeyValue" ->
                  CountDeployOps(Tail(operations), init, update + 1)
           [] OTHER -> [valid |-> FALSE, init |-> init, update |-> update]

\* Mutant of accepted_deploy: the InitializeMapping count is not compared
\* with the program's mappings.
accepted_deploy_NoMappingCheck(index, transaction, finalize_operations) ==
    IF transaction.kind # "Deploy" THEN Err("WrongTransactionKind")
    ELSE IF fee_transition(transaction) = None THEN Err("MissingFee")
    ELSE
      LET num_fee_finalize_operations ==
              IF is_fee_public(Unwrap(fee_transition(transaction))) THEN 1 ELSE 0
          counted == CountDeployOps(finalize_operations, 0, 0)
      IN  IF ~counted.valid THEN Err("InvalidFinalizeOpForDeploy")
          ELSE IF \/ counted.update # num_fee_finalize_operations
                  \/ counted.init + counted.update # Len(finalize_operations)
               THEN Err("FinalizeShapeMismatch")
          ELSE Ok(AcceptedDeploy(index, transaction, finalize_operations))

\* Mutant of accepted_deploy: the UpdateKeyValue count is checked before the
\* InitializeMapping count.
accepted_deploy_ShapeFirst(index, transaction, finalize_operations) ==
    IF transaction.kind # "Deploy" THEN Err("WrongTransactionKind")
    ELSE IF fee_transition(transaction) = None THEN Err("MissingFee")
    ELSE
      LET program == Unwrap(transaction.deployment)
          num_fee_finalize_operations ==
              IF is_fee_public(Unwrap(fee_transition(transaction))) THEN 1 ELSE 0
          counted == CountDeployOps(finalize_operations, 0, 0)
      IN  IF ~counted.valid THEN Err("InvalidFinalizeOpForDeploy")
          ELSE IF \/ counted.update # num_fee_finalize_operations
                  \/ counted.init + counted.update # Len(finalize_operations)
               THEN Err("FinalizeShapeMismatch")
          ELSE IF program.mappings # counted.init THEN Err("MappingCountMismatch")
          ELSE Ok(AcceptedDeploy(index, transaction, finalize_operations))

accepted_deploy(index, transaction, finalize_operations) ==
    IF transaction.kind # "Deploy" THEN Err("WrongTransactionKind")
    ELSE IF fee_transition(transaction) = None THEN Err("MissingFee")
    ELSE
      LET program == Unwrap(transaction.deployment)
          num_fee_finalize_operations ==
              IF is_fee_public(Unwrap(fee_transition(transaction))) THEN 1 ELSE 0
          counted == CountDeployOps(finalize_operations, 0, 0)
      IN  IF ~counted.valid THEN Err("InvalidFinalizeOpForDeploy")
          ELSE IF program.mappings # counted.init THEN Err("MappingCountMismatch")
          ELSE IF \/ counted.update # num_fee_finalize_operations
                  \/ counted.init + counted.update # Len(finalize_operations)
               THEN Err("FinalizeShapeMismatch")
          ELSE Ok(AcceptedDeploy(index, transaction, finalize_operations))

\* The loop of accepted_execute: TRUE when it bails on a *Mapping operation.
RECURSIVE HasMappingOp(_)
HasMappingOp(operations) ==
    IF operations = <<>> THEN FALSE
    ELSE IF Head(operations) \in {"InsertKeyValue", "UpdateKeyValue", "RemoveKeyValue"}
         THEN HasMappingOp(Tail(operations))
         ELSE TRUE

\* Mutant of accepted_execute: the transaction kind is checked first.
accepted_execute_KindFirst(index, transaction, finalize_operations) ==
    IF ~is_execute(transaction) THEN Err("WrongTransactionKind")
    ELSE IF HasMappingOp(finalize_operations) THEN Err("InvalidFinalizeOpForExecute")
    ELSE Ok(AcceptedExecute(index, transaction, finalize_operations))

accepted_execute(index, transaction, finalize_operations) ==
    IF HasMappingOp(finalize_operations) THEN Err("InvalidFinalizeOpForExecute")
    ELSE IF is_execute(transaction)
         THEN Ok(AcceptedExecute(index, transaction, finalize_operations))
         ELSE Err("WrongTransactionKind")

\* Mutant of rejected_deploy: the transaction kind is checked first.
rejected_deploy_FeeFirst(index, transaction, rejected) ==
    IF ~is_fee(transaction) THEN Err("WrongTransactionKind")
    ELSE IF is_deployment(rejected) THEN Ok(RejectedDeploy(index, transaction, rejected))
         ELSE Err("RejectedKindMismatch")

rejected_deploy(index, transaction, rejected) ==
    IF ~is_deployment(rejected) THEN Err("RejectedKindMismatch")
    ELSE IF is_fee(transaction) THEN Ok(RejectedDeploy(index, transaction, rejected))
         ELSE Err("WrongTransactionKind")

rejected_execute(index, transaction, rejected) ==
    IF ~is_execution(rejected) THEN Err("RejectedKindMismatch")
    ELSE IF is_fee(transaction) THEN Ok(RejectedExecute(index, transaction, rejected))
         ELSE Err("WrongTransactionKind")

\* Mutant of is_accepted: only an accepted deploy counts as accepted.
is_accepted_DeployOnly(ct) == ct.variant = "AcceptedDeploy"

\* Mutant of num_finalize: only the operations of an accepted deploy count.
num_finalize_DeployOnly(ct) ==
    IF ct.variant = "AcceptedDeploy" THEN Len(ct.finalize) ELSE 0

is_accepted(ct) == ct.variant \in {"AcceptedDeploy", "AcceptedExecute"}
is_rejected(ct) == ~is_accepted(ct)
transaction(ct) == ct.transaction

index(ct) == ct.index

variant(ct) ==
    CASE ct.variant = "AcceptedDeploy" -> "accepted deploy"
      [] ct.variant = "AcceptedExecute" -> "accepted execute"
      [] ct.variant = "RejectedDeploy" -> "rejected deploy"
      [] ct.variant = "RejectedExecute" -> "rejected execute"

into_transaction(ct) == ct.transaction

num_finalize(ct) ==
    IF ct.variant \in {"AcceptedDeploy", "AcceptedExecute"} THEN Len(ct.finalize) ELSE 0

finalize_operations(ct) ==
    IF ct.variant \in {"AcceptedDeploy", "AcceptedExecute"} THEN Some(ct.finalize) ELSE None

\* Mutant of unconfirmed_id: the id of the stored transaction, for every variant.
unconfirmed_id_Stored(ct) == Ok(id(ct.transaction))

unconfirmed_id(ct) ==
    IF ct.variant \in {"AcceptedDeploy", "AcceptedExecute"}
    THEN Ok(id(ct.transaction))
    ELSE to_unconfirmed_id(Unwrap(ct.rejected), fee_transition(ct.transaction))

\* Mutant of unconfirmed_transaction: an accepted execute is rebuilt from its
\* execution alone, without the fee.
unconfirmed_transaction_DropsFee(ct) ==
    CASE ct.variant = "AcceptedDeploy" -> Ok(ct.transaction)
      [] ct.variant = "AcceptedExecute" ->
            from_execution(Unwrap(ct.transaction.execution), None)
      [] OTHER -> Err("MissingExecution")

\* Mutant of unconfirmed_transaction: the deployment is looked for before
\* the program owner.
unconfirmed_transaction_DeploymentFirst(ct) ==
    CASE ct.variant \in {"AcceptedDeploy", "AcceptedExecute"} -> Ok(ct.transaction)
      [] ct.variant = "RejectedDeploy" ->
            LET rejected == Unwrap(ct.rejected)
            IN  IF Rejected_deployment(rejected) = None THEN Err("MissingDeployment")
                ELSE IF program_owner(rejected) = None THEN Err("MissingOwner")
                ELSE IF fee_transition(ct.transaction) = None THEN Err("MissingFee")
                ELSE from_deployment(Unwrap(program_owner(rejected)),
                                     Unwrap(Rejected_deployment(rejected)),
                                     Unwrap(fee_transition(ct.transaction)))
      [] ct.variant = "RejectedExecute" ->
            LET rejected == Unwrap(ct.rejected)
            IN  IF Rejected_execution(rejected) = None THEN Err("MissingExecution")
                ELSE from_execution(Unwrap(Rejected_execution(rejected)),
                                    fee_transition(ct.transaction))

unconfirmed_transaction(ct) ==
    CASE ct.variant \in {"AcceptedDeploy", "AcceptedExecute"} -> Ok(ct.transaction)
      [] ct.variant = "RejectedDeploy" ->
            LET rejected == Unwrap(ct.rejected)
            IN  IF program_owner(rejected) = None THEN Err("MissingOwner")
                ELSE IF Rejected_deployment(rejected) = None THEN Err("MissingDeployment")
                ELSE IF fee_transition(ct.transaction) = None THEN Err("MissingFee")
                ELSE from_deployment(Unwrap(program_owner(rejected)),
                                     Unwrap(Rejected_deployment(rejected)),
                                     Unwrap(fee_transition(ct.transaction)))
      [] ct.variant = "RejectedExecute" ->
            LET rejected == Unwrap(ct.rejected)
            IN  IF Rejected_execution(rejected) = None THEN Err("MissingExecution")
                ELSE from_execution(Unwrap(Rejected_execution(rejected)),
                                    fee_transition(ct.transaction))

(***************************************************************************)
(* A caller builds one confirmation from arguments of its choice (`call`)  *)
(* and then asks for the unconfirmed id or transaction.                    *)
(***************************************************************************)
NoCall == [op |-> "none", index |-> 0, transaction |-> None, finalize |-> <<>>,
           rejected |-> None]
NoResult == [ok |-> FALSE, err |-> "none", value |-> None]
NoAnswer == [op |-> "none", res |-> NoResult]

Calls ==
    [op : {"accepted_deploy", "accepted_execute"}, index : Indices,
     transaction : {Some(tx) : tx \in Transactions}, finalize : FinalizeLists,
     rejected : {None}]
    \cup
    [op : {"rejected_deploy", "rejected_execute"}, index : Indices,
     transaction : {Some(tx) : tx \in Transactions}, finalize : {<<>>},
     rejected : {Some(r) : r \in Rejecteds}]

CallAcceptedDeploy ==
    /\ call.op = "accepted_deploy" /\ result = NoResult
    /\ result' = accepted_deploy(call.index, Unwrap(call.transaction), call.finalize)
    /\ UNCHANGED <<call, answer, envVars>>

CallAcceptedExecute ==
    /\ call.op = "accepted_execute" /\ result = NoResult
    /\ result' = accepted_execute(call.index, Unwrap(call.transaction), call.finalize)
    /\ UNCHANGED <<call, answer, envVars>>

CallRejectedDeploy ==
    /\ call.op = "rejected_deploy" /\ result = NoResult
    /\ result' = rejected_deploy(call.index, Unwrap(call.transaction), Unwrap(call.rejected))
    /\ UNCHANGED <<call, answer, envVars>>

CallRejectedExecute ==
    /\ call.op = "rejected_execute" /\ result = NoResult
    /\ result' = rejected_execute(call.index, Unwrap(call.transaction), Unwrap(call.rejected))
    /\ UNCHANGED <<call, answer, envVars>>

CallUnconfirmedId ==
    /\ result.ok
    /\ answer = NoAnswer
    /\ answer' = [op |-> "unconfirmed_id", res |-> unconfirmed_id(Unwrap(result.value))]
    /\ UNCHANGED <<call, result, envVars>>

CallUnconfirmedTransaction ==
    /\ result.ok
    /\ answer = NoAnswer
    /\ answer' = [op |-> "unconfirmed_transaction",
                  res |-> unconfirmed_transaction(Unwrap(result.value))]
    /\ UNCHANGED <<call, result, envVars>>

\* Every query of a confirmation, asked of the one just built.
CallQueries ==
    /\ result.ok
    /\ answer = NoAnswer
    /\ LET ct == Unwrap(result.value)
       IN  answer' = [op |-> "queries",
                      res |-> [is_accepted |-> is_accepted(ct),
                               is_rejected |-> is_rejected(ct),
                               index |-> index(ct),
                               variant |-> variant(ct),
                               transaction |-> transaction(ct),
                               into_transaction |-> into_transaction(ct),
                               num_finalize |-> num_finalize(ct),
                               finalize_operations |-> finalize_operations(ct)]]
    /\ UNCHANGED <<call, result, envVars>>

InitEnv ==
    /\ slot = None
    /\ systems = <<>>
    /\ stack = <<>>
    /\ last = Outcome("init", "", None, None)
    /\ steps = 0

InitTx ==
    /\ call = NoCall
    /\ result = NoResult
    /\ answer = NoAnswer

Init == InitEnv /\ InitTx

Next ==
    \/ \E mode \in Modes : new_variable(mode)
    \/ Enforce
    \/ Read
    \/ \E name \in Names : Scope(name)
    \/ \E name \in Names : ScopedEnter(name)
    \/ ScopedExit
    \/ reset_circuit
    \/ halt

Spec == Init /\ [][Next]_vars

\* The confirmed-transaction constructors, on every call of Calls.
InitCalls ==
    /\ InitEnv
    /\ call \in Calls
    /\ result = NoResult
    /\ answer = NoAnswer

NextTx ==
    \/ CallAcceptedDeploy
    \/ CallAcceptedExecute
    \/ CallRejectedDeploy
    \/ CallRejectedExecute
    \/ CallUnconfirmedId
    \/ CallUnconfirmedTransaction
    \/ CallQueries

SpecTx == InitCalls /\ [][NextTx]_vars

\* unconfirmed_id and unconfirmed_transaction on every value of the enum,
\* whether or not a validating constructor would have built it (the variants
\* of a pub enum can be built directly).
Variants ==
    [variant : {"AcceptedDeploy", "AcceptedExecute"}, index : Indices,
     transaction : Transactions, finalize : SeqsUpTo(FinalizeOperation, 1),
     rejected : {None}]
    \cup
    [variant : {"RejectedDeploy", "RejectedExecute"}, index : Indices,
     transaction : Transactions, finalize : {<<>>},
     rejected : {Some(r) : r \in Rejecteds}]

InitVariants ==
    /\ InitEnv
    /\ call = NoCall
    /\ result \in {Ok(ct) : ct \in Variants}
    /\ answer = NoAnswer

NextVariants ==
    \/ CallUnconfirmedId
    \/ CallUnconfirmedTransaction

SpecVariants == InitVariants /\ [][NextVariants]_vars

\* A test in the manner of the crate's own: the circuit is reset, then a
\* program of allocations and scope() calls runs from its first to its last
\* operation.
MaxProgram == 6     \* operations of a drawn program

Programs == SeqsUpTo(Modes \cup {"scope"}, MaxProgram)

\* The thread after a first access and reset_circuit().
InitRun ==
    /\ slot = Some(CircuitScope_new(2, RootName))
    /\ systems = <<ConstraintSystem_new, ConstraintSystem_new>>
    /\ stack = <<>>
    /\ last = Outcome("reset_circuit", "", None, None)
    /\ steps = 0
    /\ call \in [op : {"run"}, ops : Programs]
    /\ result = NoResult
    /\ answer = NoAnswer

\* The operation the program is at.
Operation == call.ops[steps + 1]

NextRun ==
    \/ \E mode \in Modes : steps < Len(call.ops) /\ Operation = mode /\ new_variable(mode)
    \/ steps < Len(call.ops) /\ Operation = "scope" /\ Scope("a")

SpecRun == InitRun /\ [][NextRun]_vars

(***************************************************************************)
(* Inject (circuit/environment/src/traits/inject.rs): the lifts of a       *)
(* sequence, an insertion-ordered map and the tuples of arity 2 to 5.      *)
(* An IndexMap is the sequence of its entries [key, value] in insertion    *)
(* order, no key occurring twice.                                          *)
(***************************************************************************)
MaxLen == 3         \* entries of an injected sequence or map

Primitives == {"p1", "p2"}
Keys == {"k1", "k2", "k3"}
Arities == 2..5

\* The element type's new(mode, value), as the n-th injection of a call: a
\* constant is determined by its value, a public or private element holds a
\* variable of its own.
Inject_new(mode, value, n) ==
    [mode |-> mode, value |-> value,
     variable |-> IF mode = "Constant" THEN None ELSE Some(n)]

\* IndexMap::insert: the value of a key already present is replaced where
\* it stands, a new key is appended.
IndexMap_insert(map, key, value) ==
    IF \E i \in DOMAIN map : map[i].key = key
    THEN [i \in DOMAIN map |->
            IF map[i].key = key THEN [key |-> key, value |-> value] ELSE map[i]]
    ELSE Append(map, [key |-> key, value |-> value])

\* FromIterator for IndexMap: the pairs are inserted one after the other.
RECURSIVE IndexMap_collect(_, _)
IndexMap_collect(map, pairs) ==
    IF pairs = <<>> THEN map
    ELSE IndexMap_collect(IndexMap_insert(map, Head(pairs).key, Head(pairs).value),
                          Tail(pairs))

\* Mutant of IndexMap_new: the keys are injected as constants.
IndexMap_new_ConstantKeys(mode, value) ==
    IndexMap_collect(<<>>,
        [i \in DOMAIN value |->
            [key |-> Inject_new("Constant", value[i].key, 2 * (i - 1)),
             value |-> Inject_new(mode, value[i].value, 2 * (i - 1) + 1)]])

\* impl Inject for IndexMap<C0, C1>
IndexMap_new(mode, value) ==
    IndexMap_collect(<<>>,
        [i \in DOMAIN value |->
            [key |-> Inject_new(mode, value[i].key, 2 * (i - 1)),
             value |-> Inject_new(mode, value[i].value, 2 * (i - 1) + 1)]])

\* impl Inject for Vec<C>
Vec_new(mode, value) == [i \in DOMAIN value |-> Inject_new(mode, value[i], i - 1)]

\* inject_tuple!: ($t0::new(mode, value.0), $ty::new(mode, value.$idx), ...)
Tuple_new(mode, value) == [i \in DOMAIN value |-> Inject_new(mode, value[i], i - 1)]

\* The primitive maps: sequences of entries with pairwise different keys.
PrimitiveMaps ==
    {m \in SeqsUpTo([key : Keys, value : Primitives], MaxLen) :
        \A i, j \in DOMAIN m : i # j => m[i].key # m[j].key}

PrimitiveTuples == {t \in SeqsUpTo(Primitives, 5) : Len(t) \in Arities}

Injections ==
    [op : {"Vec"}, mode : Modes, value : SeqsUpTo(Primitives, MaxLen)]
    \cup [op : {"IndexMap"}, mode : Modes, value : PrimitiveMaps]
    \cup [op : {"Tuple"}, mode : Modes, value : PrimitiveTuples]

InjectVec ==
    /\ call.op = "Vec" /\ answer = NoAnswer
    /\ answer' = [op |-> "new", res |-> Vec_new(call.mode, call.value)]
    /\ UNCHANGED <<call, result, envVars>>

InjectIndexMap ==
    /\ call.op = "IndexMap" /\ answer = NoAnswer
    /\ answer' = [op |-> "new", res |-> IndexMap_new(call.mode, call.value)]
    /\ UNCHANGED <<call, result, envVars>>

InjectTuple ==
    /\ call.op = "Tuple" /\ answer = NoAnswer
    /\ answer' = [op |-> "new", res |-> Tuple_new(call.mode, call.value)]
    /\ UNCHANGED <<call, result, envVars>>

InitInject ==
    /\ InitEnv
    /\ call \in Injections
    /\ result = NoResult
    /\ answer = NoAnswer

NextInject ==
    \/ InjectVec
    \/ InjectIndexMap
    \/ InjectTuple

SpecInject == InitInject /\ [][NextInject]_vars

(***************************************************************************)
(* Properties of the circuit environment.                                  *)
(***************************************************************************)
Ambient == Unwrap(slot)

\* The scope an operation finds ambient: the slot's, or the root that the
\* first access builds over a new constraint system.
PriorAmbient ==
    IF slot = None THEN [path |-> RootName, sys |-> Len(systems) + 1] ELSE Ambient

Top == stack[Len(stack)]

RECURSIVE Tally(_)
Tally(issued) ==
    IF issued = <<>> THEN [constants |-> 0, public |-> 0, private |-> 0, constraints |-> 0]
    ELSE LET t == Tally(Tail(issued))
             k == Head(issued).kind
         IN  [constants |-> t.constants + (IF k = "Constant" THEN 1 ELSE 0),
              public |-> t.public + (IF k = "Public" THEN 1 ELSE 0),
              private |-> t.private + (IF k = "Private" THEN 1 ELSE 0),
              constraints |-> t.constraints + (IF k = "Constraint" THEN 1 ELSE 0)]

Plus(c, d) ==
    [constants |-> c.constants + d.constants, public |-> c.public + d.public,
     private |-> c.private + d.private, constraints |-> c.constraints + d.constraints]

\* The logic of the call of frame f did nothing but allocate, enforce and
\* call scoped() again.
Nested(f) == ~f.replaced /\ ~f.reset

Entered == Len(stack') = Len(stack) + 1
ReturnedNormally == Len(stack') = Len(stack) - 1 /\ ~last'.panic

\* C1, on entry: scoped(name, logic) makes the child <prior path>/<name> over
\* the prior ambient's constraint system the ambient scope.
C1_Entry ==
    Entered =>
        slot' = Some([path |-> Append(PriorAmbient.path, stack'[Len(stack')].name),
                      sys |-> PriorAmbient.sys])

\* C1, during logic: while the logic of the innermost call only allocates,
\* enforces and nests scoped(), the ambient scope is that call's child.
C1_During ==
    (stack # <<>> /\ Nested(Top)) =>
        slot = Some([path |-> Append(Top.before.path, Top.name), sys |-> Top.before.sys])

\* C1, on return: the ambient scope is again the one observed just before
\* the call (same path, same constraint system), and what the call issued
\* is counted in that system.
C1_Return ==
    (ReturnedNormally /\ Nested(Top)) =>
        /\ slot' = Some(Top.before)
        /\ systems'[Top.before.sys] = Plus(Top.entry, Tally(Top.issued))

\* C1: for properly nested scoped() calls whose logic completes normally, the
\* ambient scope after scoped(name, logic) returns has the path and the
\* constraint system it had just before the call; during logic it is the
\* child <prior path>/<name>; what logic allocated stays counted.
C1_ScopedRestoresAmbient ==
    /\ [][C1_Entry /\ C1_Return]_vars
    /\ []C1_During

\* C1 witness: scoped("a", scoped("b", allocate one private)) has returned to
\* the root scope, and num_private went from 0 to 1.
C1_Witness ==
    /\ stack = <<>>
    /\ last.op = "scoped_return"
    /\ \E f \in last.frame :
          /\ f.name = "a" /\ Nested(f)
          /\ f.before = [path |-> RootName, sys |-> 1]
          /\ f.entry.private = 0
          /\ f.issued = <<[kind |-> "Private",
                           scope |-> [path |-> RootName \o <<"a", "b">>, sys |-> 1]]>>
    /\ slot = Some([path |-> RootName, sys |-> 1])
    /\ num_private = 1

\* C2 (as claimed): after logic panics inside scoped(), the slot holds the
\* scope that was ambient just before the (outermost unwound) scoped() call.
C2_RestoredAfterAbort ==
    (last.panic /\ last.frame # None) => slot = Some(Unwrap(last.frame).before)

\* C9, the call: scope(name) makes the child <prior path>/<name> over the
\* prior ambient's constraint system the ambient scope, returns it, and
\* leaves every counter as it was.
C9_Call ==
    (last'.op = "scope") =>
        /\ slot' = Some([path |-> Append(PriorAmbient.path, last'.arg),
                         sys |-> PriorAmbient.sys])
        /\ last'.scope = slot'
        /\ systems' = SystemsAfterCs

\* C9, afterwards: allocating and enforcing leave the ambient scope where
\* scope() put it, and issue under it.
C9_Stays ==
    (last'.op \in {"new_variable", "enforce"}) =>
        /\ slot' = Some(PriorAmbient)
        /\ last'.scope = slot'

\* C9: scope(name) replaces the ambient scope by the child <ambient
\* path>/<name> over the same constraint system, returns it, changes no
\* counter, and later allocations and constraints are issued under it.
C9_ScopeReplacesAmbient == [][C9_Call /\ C9_Stays]_vars

\* C9 witness: after scope("a"), scope("b") from the root, a variable was
\* issued under root/a/b, which is still the ambient scope.
C9_Witness ==
    /\ stack = <<>>
    /\ steps = 3
    /\ last.op = "new_variable"
    /\ slot = Some([path |-> RootName \o <<"a", "b">>, sys |-> 1])
    /\ last.scope = slot

\* C10: reset_circuit() on an initialised slot makes a root scope
\* "ConstraintSystem::new" over a new constraint system the ambient scope;
\* the counters read (0, 1, 0, 0) and no earlier system is the ambient's.
C10_ResetGivesFreshRoot ==
    [][(last'.op = "reset_circuit" /\ slot # None) =>
          /\ ~last'.panic
          /\ slot' # None
          /\ Unwrap(slot').path = RootName
          /\ Unwrap(slot').sys \notin DOMAIN systems
          /\ <<num_constants', num_public', num_private', num_constraints'>> = <<0, 1, 0, 0>>
          /\ \A i \in DOMAIN systems : systems'[i] = systems[i]]_vars

\* C10 witness: a reset after something was allocated and enforced, inside
\* a scoped() call.
C10_Witness ==
    /\ last.op = "reset_circuit" /\ ~last.panic
    /\ stack # <<>>
    /\ systems[1].private = 1 /\ systems[1].constraints = 1
    /\ Ambient = [path |-> RootName, sys |-> 2]
    /\ <<num_constants, num_public, num_private, num_constraints>> = <<0, 1, 0, 0>>

(***************************************************************************)
(* Properties of the confirmed-transaction constructors.                   *)
(***************************************************************************)
Tx == Unwrap(call.transaction)
Made == result # NoResult
Built == Unwrap(result.value)

Occurrences(ops, tag) == Cardinality({i \in DOMAIN ops : ops[i] = tag})

\* C3: accepted_deploy succeeds exactly when tx is a deploy transaction with
\* a fee transition, every operation is InitializeMapping or UpdateKeyValue
\* (in any order), there are as many InitializeMapping operations as the
\* program declares mappings, and there is one UpdateKeyValue when the fee is
\* public and none otherwise; a success yields AcceptedDeploy of the inputs.
C3_AcceptedDeployIff ==
    (call.op = "accepted_deploy" /\ Made) =>
        /\ result.ok <=>
              /\ Tx.kind = "Deploy"
              /\ Tx.fee # None
              /\ \A i \in DOMAIN call.finalize :
                    call.finalize[i] \in {"InitializeMapping", "UpdateKeyValue"}
              /\ Occurrences(call.finalize, "InitializeMapping")
                    = Unwrap(Tx.deployment).mappings
              /\ Occurrences(call.finalize, "UpdateKeyValue")
                    = (IF Unwrap(Tx.fee).public THEN 1 ELSE 0)
        /\ result.ok => Built.variant = "AcceptedDeploy" /\ Built.finalize = call.finalize
                        /\ Built.transaction = Tx

\* C3 witness: a deploy with one mapping and a public fee is accepted with
\* the update listed before the initialisation.
C3_Witness ==
    /\ call.op = "accepted_deploy" /\ result.ok
    /\ Unwrap(Tx.fee).public
    /\ call.finalize = <<"UpdateKeyValue", "InitializeMapping">>

\* C4: accepted_execute fails with InvalidFinalizeOpForExecute when some
\* operation is InitializeMapping, ReplaceMapping or RemoveMapping, whatever
\* the transaction; otherwise with WrongTransactionKind when tx is not an
\* execute transaction; otherwise it yields AcceptedExecute of the inputs.
C4_AcceptedExecuteOrder ==
    (call.op = "accepted_execute" /\ Made) =>
        IF \E i \in DOMAIN call.finalize :
              call.finalize[i] \in {"InitializeMapping", "ReplaceMapping", "RemoveMapping"}
        THEN result = Err("InvalidFinalizeOpForExecute")
        ELSE IF Tx.kind # "Execute"
             THEN result = Err("WrongTransactionKind")
             ELSE result = Ok(AcceptedExecute(call.index, Tx, call.finalize))

\* C4 witness: a deploy transaction passed with a RemoveMapping operation
\* last is refused for the operation, not for its kind.
C4_Witness ==
    /\ call.op = "accepted_execute"
    /\ Tx.kind = "Deploy"
    /\ call.finalize = <<"InsertKeyValue", "RemoveMapping">>
    /\ result = Err("InvalidFinalizeOpForExecute")

RejectedKindFits ==
    IF call.op = "rejected_deploy"
    THEN Unwrap(call.rejected).kind = "Deployment"
    ELSE Unwrap(call.rejected).kind = "Execution"

\* C5: rejected_deploy (rejected_execute) succeeds exactly when the rejected
\* record is a deployment (an execution) and the transaction is a fee
\* transaction; a wrong rejected record is reported first
\* (RejectedKindMismatch), a wrong transaction alone as WrongTransactionKind;
\* no deploy or execute transaction is ever stored in a rejected confirmation.
C5_RejectedConstructors ==
    (call.op \in {"rejected_deploy", "rejected_execute"} /\ Made) =>
        /\ result.ok <=> (RejectedKindFits /\ Tx.kind = "Fee")
        /\ ~RejectedKindFits => result = Err("RejectedKindMismatch")
        /\ (RejectedKindFits /\ Tx.kind # "Fee") => result = Err("WrongTransactionKind")
        /\ result.ok =>
              /\ Built.variant = (IF call.op = "rejected_deploy"
                                  THEN "RejectedDeploy" ELSE "RejectedExecute")
              /\ Built.transaction = Tx
              /\ Built.transaction.kind \notin {"Deploy", "Execute"}

\* C5 witness: rejected_deploy given an execution record and a deploy
\* transaction reports the record.
C5_Witness ==
    /\ call.op = "rejected_deploy"
    /\ Unwrap(call.rejected).kind = "Execution"
    /\ Tx.kind = "Deploy"
    /\ result = Err("RejectedKindMismatch")

\* The originally submitted deploy and execute transactions that have a fee
\* transition, and the split of one into its fee-only transaction and its
\* rejected record.
Submitted == {T \in Transactions : T.kind \in {"Deploy", "Execute"} /\ T.fee # None}

SplitOf(T) ==
    /\ call.op = (IF T.kind = "Deploy" THEN "rejected_deploy" ELSE "rejected_execute")
    /\ call.transaction = from_fee(Unwrap(fee_transition(T))).value
    /\ Unwrap(call.rejected) =
          (IF T.kind = "Deploy"
           THEN Rejected_new_deployment(Unwrap(T.owner), Unwrap(T.deployment))
           ELSE Rejected_new_execution(Unwrap(T.execution)))

\* C6: the rejected confirmation built from the split of a submitted deploy
\* or execute transaction T has unconfirmed_id() = T.id(), which differs from
\* the id of the stored fee-only transaction, and unconfirmed_transaction() = T.
C6_RejectedRoundTrip ==
    \A T \in Submitted :
        (SplitOf(T) /\ Made) =>
            /\ result.ok
            /\ answer.op = "unconfirmed_id" =>
                  /\ answer.res = Ok(id(T))
                  /\ answer.res # Ok(id(transaction(Built)))
            /\ answer.op = "unconfirmed_transaction" => answer.res = Ok(T)

\* C6 witness: the deploy of owner2 with a private fee is recovered from its
\* rejected confirmation.
C6_Witness ==
    /\ answer.op = "unconfirmed_transaction"
    /\ \E T \in Submitted :
          /\ SplitOf(T)
          /\ T.kind = "Deploy" /\ T.owner = Some("owner2") /\ ~Unwrap(T.fee).public
          /\ answer.res = Ok(T)

\* C7: on an accepted confirmation unconfirmed_id() is Ok(transaction().id())
\* and unconfirmed_transaction() is Ok(transaction()), whatever the index and
\* the finalize operations.
C7_AcceptedUnconfirmed ==
    (result.ok /\ is_accepted(Built)) =>
        /\ transaction(Built) = Tx
        /\ answer.op = "unconfirmed_id" => answer.res = Ok(id(Tx))
        /\ answer.op = "unconfirmed_transaction" => answer.res = Ok(Tx)

\* C7 witness: an accepted execute with a fee and three operations at index 1
\* gives back its own transaction.
C7_Witness ==
    /\ call.op = "accepted_execute" /\ result.ok
    /\ call.index = 1 /\ Len(call.finalize) = 3 /\ Tx.fee # None
    /\ answer.op = "unconfirmed_transaction"
    /\ answer.res = Ok(Tx)

(***************************************************************************)
(* Properties of the unconfirmed reconstruction on arbitrary values.       *)
(***************************************************************************)
StoredFee == fee_transition(Built.transaction)
Record_ == Unwrap(Built.rejected)

\* What the rejected record or the stored transaction lacks, in the order
\* unconfirmed_transaction() asks for it.
MissingInDeploy ==
    IF Record_.owner = None THEN "MissingOwner"
    ELSE IF Record_.deployment = None THEN "MissingDeployment"
    ELSE IF StoredFee = None THEN "MissingFee"
    ELSE ""

\* C8 (as claimed): on a rejected confirmation every missing part makes the
\* reconstruction fail: owner, deployment or fee for RejectedDeploy,
\* execution or fee for RejectedExecute, in unconfirmed_transaction(), and a
\* missing fee in unconfirmed_id() too.
C8_EveryMissingPartFails ==
    (result.ok /\ is_rejected(Built)) =>
        /\ (answer.op = "unconfirmed_transaction" /\ Built.variant = "RejectedDeploy"
               /\ MissingInDeploy # "") => ~answer.res.ok
        /\ (answer.op = "unconfirmed_transaction" /\ Built.variant = "RejectedExecute"
               /\ (Record_.execution = None \/ StoredFee = None)) => ~answer.res.ok
        /\ (answer.op = "unconfirmed_id" /\ StoredFee = None) => ~answer.res.ok

\* C8 (amended): unconfirmed_transaction() fails with the error of the first
\* missing part for RejectedDeploy (owner, deployment, fee) and with
\* MissingExecution for RejectedExecute without an execution; it checks
\* nothing else: with those parts present it returns what from_deployment /
\* from_execution return, and unconfirmed_id() returns what
\* to_unconfirmed_id returns, a missing fee being handed on as None.
C8_MissingPartsChecked ==
    (result.ok /\ is_rejected(Built)) =>
        /\ (answer.op = "unconfirmed_transaction" /\ Built.variant = "RejectedDeploy") =>
              IF MissingInDeploy # "" THEN answer.res = Err(MissingInDeploy)
              ELSE answer.res = from_deployment(Unwrap(Record_.owner),
                                                Unwrap(Record_.deployment), Unwrap(StoredFee))
        /\ (answer.op = "unconfirmed_transaction" /\ Built.variant = "RejectedExecute") =>
              IF Record_.execution = None THEN answer.res = Err("MissingExecution")
              ELSE answer.res = from_execution(Unwrap(Record_.execution), StoredFee)
        /\ answer.op = "unconfirmed_id" =>
              answer.res = to_unconfirmed_id(Record_, StoredFee)

\* C8 witness: a RejectedDeploy holding an execution record has no program
\* owner, and unconfirmed_transaction() says so.
C8_Witness ==
    /\ result.ok /\ Built.variant = "RejectedDeploy"
    /\ Record_.kind = "Execution"
    /\ answer.op = "unconfirmed_transaction"
    /\ answer.res = Err("MissingOwner")

(***************************************************************************)
(* Properties of allocation.                                               *)
(***************************************************************************)
Counters(system) ==
    <<system.constants, system.public, system.private, system.constraints>>

Unit(mode) ==
    <<IF mode = "Constant" THEN 1 ELSE 0, IF mode = "Public" THEN 1 ELSE 0,
      IF mode = "Private" THEN 1 ELSE 0, 0>>

Sum(c, d) == [i \in 1..4 |-> c[i] + d[i]]

Done == SubSeq(call.ops, 1, steps)

\* C11, the call: new_variable(mode, v) adds one to the counter of its mode
\* in the ambient scope's constraint system and to nothing else: the other
\* counters, the other systems and the ambient scope stay as they were.
C11_Call ==
    (last'.op = "new_variable") =>
        /\ Counters(systems'[PriorAmbient.sys])
              = Sum(Counters(systems[PriorAmbient.sys]), Unit(last'.arg))
        /\ \A i \in DOMAIN systems : i # PriorAmbient.sys => systems'[i] = systems[i]
        /\ DOMAIN systems' = DOMAIN systems
        /\ slot' = slot

\* C11, the scenario: after one public, two private and three constant
\* allocations on a reset circuit, in any order, the counters read
\* (3, 2, 2, 0); in general they read what was allocated, beside the public
\* variable `one`.
C11_Scenario ==
    /\ <<num_constants, num_public, num_private, num_constraints>> =
          <<Occurrences(Done, "Constant"), 1 + Occurrences(Done, "Public"),
            Occurrences(Done, "Private"), 0>>
    /\ (/\ Len(Done) = 6
        /\ Occurrences(Done, "Public") = 1
        /\ Occurrences(Done, "Private") = 2
        /\ Occurrences(Done, "Constant") = 3) =>
          <<num_constants, num_public, num_private, num_constraints>> = <<3, 2, 2, 0>>

\* C11: new_variable(mode, v) increases exactly the counter of its mode by
\* one in the ambient scope's constraint system, whichever scope is ambient,
\* and leaves the other counters and the ambient scope unchanged; on a reset
\* circuit one public, two private and three constant allocations in any
\* order give the counters (3, 2, 2, 0).
C11_NewVariableCounts == [][C11_Call]_vars /\ []C11_Scenario

\* C11 witness: the six allocations were made with the constants spread out,
\* and the counters read (3, 2, 2, 0).
C11_Witness ==
    /\ call.op = "run"
    /\ Done = <<"Constant", "Private", "Public", "Constant", "Private", "Constant">>
    /\ last.op = "new_variable"
    /\ <<num_constants, num_public, num_private, num_constraints>> = <<3, 2, 2, 0>>

(***************************************************************************)
(* Properties of the queries of a confirmation.                            *)
(***************************************************************************)
Asked == answer.op = "queries"
Queried == answer.res
ByAccepted == call.op \in {"accepted_deploy", "accepted_execute"}

\* C12: the tag-derived queries agree with the constructor that built the
\* value: after accepted_deploy / accepted_execute, is_accepted() is true,
\* is_rejected() false, finalize_operations() is Some and variant() is
\* "accepted deploy" / "accepted execute"; after rejected_deploy /
\* rejected_execute, is_accepted() is false, is_rejected() true,
\* finalize_operations() None and variant() "rejected deploy" / "rejected
\* execute".  Always is_rejected() = ~is_accepted() and finalize_operations()
\* is Some iff is_accepted().
C12_QueriesAgreeWithConstructor ==
    Asked =>
        /\ Queried.is_accepted = ByAccepted
        /\ Queried.is_rejected = ~ByAccepted
        /\ (Queried.finalize_operations # None) = ByAccepted
        /\ Queried.variant =
              (CASE call.op = "accepted_deploy" -> "accepted deploy"
                 [] call.op = "accepted_execute" -> "accepted execute"
                 [] call.op = "rejected_deploy" -> "rejected deploy"
                 [] call.op = "rejected_execute" -> "rejected execute")
        /\ Queried.is_rejected = ~Queried.is_accepted
        /\ (Queried.finalize_operations # None) = Queried.is_accepted

\* C12 witness: an accepted execute built without operations answers
\* Some(empty list), not None.
C12_Witness ==
    /\ Asked
    /\ call.op = "accepted_execute" /\ call.finalize = <<>>
    /\ Queried.is_accepted /\ ~Queried.is_rejected
    /\ Queried.finalize_operations = Some(<<>>)
    /\ Queried.variant = "accepted execute"

\* C13: a confirmation stores its inputs verbatim: index() is the index
\* passed, transaction() and into_transaction() the transaction passed; for
\* accepted variants finalize_operations() holds the passed operations in the
\* passed order and num_finalize() is their count; for rejected variants
\* num_finalize() is 0.
C13_StoresInputsVerbatim ==
    Asked =>
        /\ Queried.index = call.index
        /\ Queried.transaction = Tx
        /\ Queried.into_transaction = Tx
        /\ ByAccepted =>
              /\ Queried.finalize_operations = Some(call.finalize)
              /\ Queried.num_finalize = Len(call.finalize)
        /\ ~ByAccepted => Queried.num_finalize = 0

\* C13 witness: the execute with a private fee, accepted at index 1 with the
\* operations Insert, Update, Remove, answers them back.
C13_Witness ==
    /\ Asked
    /\ call.op = "accepted_execute" /\ call.index = 1
    /\ Tx.kind = "Execute" /\ Tx.fee = Some([public |-> FALSE])
    /\ call.finalize = <<"InsertKeyValue", "UpdateKeyValue", "RemoveKeyValue">>
    /\ Queried.index = 1 /\ Queried.num_finalize = 3
    /\ Queried.variant = "accepted execute"
    /\ Queried.finalize_operations = Some(call.finalize)

(***************************************************************************)
(* Properties of the Inject lifts.                                         *)
(***************************************************************************)
Injected == answer.op = "new"
Lifted == answer.res

\* C14: the lifts keep the shape and hand the mode on: new(mode, value) has
\* as many entries as value, in the same order, the i-th being the element
\* type's new under that same mode of the i-th of value (for a map, of its
\* key and of its value); a map of n entries injects to a map of n entries
\* with pairwise different keys.
C14_LiftsPreserveShape ==
    Injected =>
        /\ Len(Lifted) = Len(call.value)
        /\ call.op \in {"Vec", "Tuple"} =>
              \A i \in DOMAIN call.value :
                  /\ Lifted[i].mode = call.mode
                  /\ Lifted[i].value = call.value[i]
                  /\ Lifted[i] = Inject_new(call.mode, call.value[i], i - 1)
        /\ call.op = "IndexMap" =>
              /\ \A i \in DOMAIN call.value :
                    /\ Lifted[i].key.mode = call.mode
                    /\ Lifted[i].value.mode = call.mode
                    /\ Lifted[i].key.value = call.value[i].key
                    /\ Lifted[i].value.value = call.value[i].value
              /\ \A i, j \in DOMAIN Lifted : i # j => Lifted[i].key # Lifted[j].key

\* C14 witness: a private map of three entries, two of them with the same
\* value, was injected to three entries in the order k3, k1, k2.
C14_Witness ==
    /\ Injected
    /\ call.op = "IndexMap" /\ call.mode = "Private"
    /\ call.value = <<[key |-> "k3", value |-> "p1"], [key |-> "k1", value |-> "p2"],
                      [key |-> "k2", value |-> "p1"]>>
    /\ Len(Lifted) = 3
    /\ Lifted[1].key.value = "k3" /\ Lifted[3].value.value = "p1"

(***************************************************************************)
(* The order of the checks of accepted_deploy.                             *)
(***************************************************************************)
Inits == Occurrences(call.finalize, "InitializeMapping")
Updates == Occurrences(call.finalize, "UpdateKeyValue")

FirstFailureOfDeploy ==
    IF Tx.kind # "Deploy" THEN "WrongTransactionKind"
    ELSE IF Tx.fee = None THEN "MissingFee"
    ELSE IF \E i \in DOMAIN call.finalize :
               call.finalize[i] \notin {"InitializeMapping", "UpdateKeyValue"}
         THEN "InvalidFinalizeOpForDeploy"
    ELSE IF Inits # Unwrap(Tx.deployment).mappings THEN "MappingCountMismatch"
    ELSE IF Updates # (IF Unwrap(Tx.fee).public THEN 1 ELSE 0) THEN "FinalizeShapeMismatch"
    ELSE ""

\* C15: accepted_deploy reports the first failing check in the order: not a
\* deploy transaction, no fee transition, an operation that is neither
\* InitializeMapping nor UpdateKeyValue, InitializeMapping count different
\* from the program's mappings, UpdateKeyValue count different from 1 for a
\* public fee and 0 otherwise.  For a program with m mappings and a public
\* fee, m-1 initialisations with any number of updates give
\* MappingCountMismatch, and m initialisations with two updates give
\* FinalizeShapeMismatch.
C15_AcceptedDeployOrder ==
    (call.op = "accepted_deploy" /\ Made) =>
        /\ IF FirstFailureOfDeploy = "" THEN result.ok
           ELSE result = Err(FirstFailureOfDeploy)
        /\ (/\ Tx.kind = "Deploy" /\ Tx.fee = Some([public |-> TRUE])
            /\ Inits + Updates = Len(call.finalize)) =>
              /\ Inits = Unwrap(Tx.deployment).mappings - 1 =>
                    result = Err("MappingCountMismatch")
              /\ (Inits = Unwrap(Tx.deployment).mappings /\ Updates = 2) =>
                    result = Err("FinalizeShapeMismatch")

\* C15 witness: a program with one mapping and a public fee, passed two
\* updates and no initialisation, fails both counts; the mapping count is
\* the one reported.
C15_Witness ==
    /\ call.op = "accepted_deploy"
    /\ Tx.kind = "Deploy" /\ Tx.fee = Some([public |-> TRUE])
    /\ Unwrap(Tx.deployment).mappings = 1
    /\ call.finalize = <<"UpdateKeyValue", "UpdateKeyValue">>
    /\ result = Err("MappingCountMismatch")

(***************************************************************************)
(* scoped() around logic that replaces the slot.                           *)
(***************************************************************************)
\* What a call issued into constraint system sys.
IssuedInto(frame, sys) ==
    LET Into(item) == item.scope.sys = sys
    IN  SelectSeq(frame.issued, Into)

\* C16, the return of a scoped() call, whatever its logic did.
C16_Return ==
    ReturnedNormally =>
        /\ slot' = Some(Top.before)
        /\ systems'[Top.before.sys]
              = Plus(Top.entry, Tally(IssuedInto(Top, Top.before.sys)))
        /\ <<num_constants', num_public', num_private', num_constraints'>>
              = Counters(systems'[Top.before.sys])
        /\ Top.reset =>
              /\ Len(systems') > Top.before.sys
              /\ \A i \in DOMAIN Top.issued :
                    Top.issued[i].scope.sys # Top.before.sys =>
                        Top.issued[i].scope.sys > Top.before.sys

\* C16: scoped() writes back on return the scope it read on entry, whatever
\* logic did to the slot: after logic called reset_circuit() or scope(name),
\* the ambient scope is again the one from before the call, over the
\* constraint system from before the call; the counters are those of that
\* system, which counts what was issued into it and nothing of what logic
\* allocated after its reset: that is counted in a later system, which is
\* not the ambient's.
C16_ScopedDiscardsReplacement == [][C16_Return]_vars

\* C16 witness: one private variable, then scoped("a", reset_circuit();
\* allocate a constant): after the return the ambient is the root over the
\* first system, which reads (0, 1, 1, 0); the constant is counted in the
\* second system only.
C16_Witness ==
    /\ stack = <<>>
    /\ last.op = "scoped_return"
    /\ \E f \in last.frame :
          /\ f.reset
          /\ f.before = [path |-> RootName, sys |-> 1]
          /\ f.issued = <<[kind |-> "Constant", scope |-> [path |-> RootName, sys |-> 2]]>>
    /\ slot = Some([path |-> RootName, sys |-> 1])
    /\ <<num_constants, num_public, num_private, num_constraints>> = <<0, 1, 1, 0>>
    /\ Counters(systems[2]) = <<1, 1, 0, 0>>

(***************************************************************************)
(* The first access of a thread.                                           *)
(***************************************************************************)
ThroughCs == {"new_variable", "enforce", "read", "scope", "scoped"}

\* C17, an operation that goes through cs() on the empty slot: the slot is
\* initialised with the root scope over a first constraint system, and the
\* operation acts on that.
C17_Initialises ==
    (slot = None /\ last'.op \in ThroughCs) =>
        /\ ~last'.panic
        /\ slot' # None
        /\ Len(systems') = 1
        /\ Unwrap(slot').sys = 1
        /\ Unwrap(slot').path =
              (IF last'.op \in {"scope", "scoped"}
               THEN <<"ConstraintSystem::new", last'.arg>>
               ELSE <<"ConstraintSystem::new">>)
        /\ Counters(systems'[1]) =
              (CASE last'.op = "new_variable" -> Sum(<<0, 1, 0, 0>>, Unit(last'.arg))
                 [] last'.op = "enforce" -> <<0, 1, 0, 1>>
                 [] OTHER -> <<0, 1, 0, 0>>)

\* C17, a later access: no constraint system is made, and the operation
\* acts on the system of the scope in the slot.
C17_Reuses ==
    (slot # None /\ last'.op \in ThroughCs) =>
        /\ Len(systems') = Len(systems)
        /\ Unwrap(slot').sys = Unwrap(slot).sys
        /\ \A i \in DOMAIN systems : i # Unwrap(slot).sys => systems'[i] = systems[i]

\* C17, reset_circuit() (and halt) on the empty slot: the slot stays empty,
\* no constraint system is made, and reset_circuit() panics.
C17_ResetAborts ==
    (slot = None /\ last'.op \in {"reset_circuit", "halt"}) =>
        /\ last'.panic
        /\ slot' = None
        /\ systems' = systems

\* C17: the slot is initialised lazily, and only through cs(): new_variable,
\* enforce, scope, scoped, the counters and is_satisfied, called first on a
\* thread, make the root scope "ConstraintSystem::new" over a first
\* constraint system; later accesses make no other system; reset_circuit()
\* called first does not initialise the slot: it panics and the slot stays
\* empty.
C17_LazyOnlyThroughCs == [][C17_Initialises /\ C17_Reuses /\ C17_ResetAborts]_vars

\* C17 witness: reset_circuit() was the first call of the thread; it
\* panicked, and the slot is still empty.
C17_Witness ==
    /\ steps = 1
    /\ last.op = "reset_circuit" /\ last.panic
    /\ slot = None
    /\ systems = <<>>

====
